---- MODULE Spec2Model ----
(***************************************************************************)
(* A model of the nebulang front end: the parser (src/src/parser.rs) and   *)
(* the type checker (src/src/type_checker.rs).                             *)
(*                                                                         *)
(* The parser is a pure function of the token stream; it is modelled by    *)
(* recursive operators that return the cursor position with the result.    *)
(* The type checker is modelled as a machine with an explicit call stack.  *)
(***************************************************************************)
EXTENDS Integers, Sequences, FiniteSets, TLC

VARIABLES
    terms,      \* expression(): the Vec<Term> collected so far
    pres,       \* expression(): the result of precedence(terms), or NoRes
    lexed,      \* the token stream handed to the parser
    parsed,     \* the parser's result for lexed, or NoRes
    stack,      \* type_check: the calls in progress, the innermost last
    envs,       \* type_check: the environments alive, envs[1] the caller's
    ret,        \* type_check: the TypeResult the last finished call returned
    phase       \* "idle", "run", "done", "panic" or "overflow"

vars == <<terms, pres, lexed, parsed, stack, envs, ret, phase>>
tcvars == <<stack, envs, ret, phase>>

NoRes == [st |-> "none"]

\* the type checker has not been called
TcIdle == stack = <<>> /\ envs = <<>> /\ ret = [k |-> "none"] /\ phase = "idle"

(***************************************************************************)
(* ast: Exp and its constructors.  A Location is the index of a token.     *)
(***************************************************************************)
BinOpExp(left, op, right, loc) ==
    [k |-> "BinOp", l |-> left, op |-> op, r |-> right, loc |-> loc]
UnOpExp(op, exp, loc) == [k |-> "UnOp", op |-> op, e |-> exp, loc |-> loc]
LiteralExp(lit, loc) == [k |-> "Literal", lit |-> lit, loc |-> loc]
VarExp(id, loc) == [k |-> "Var", id |-> id, loc |-> loc]
LetExp(id, exp, loc) == [k |-> "Let", id |-> id, e |-> exp, loc |-> loc]
IfElseExp(cond, pos, neg, loc) ==
    [k |-> "IfElse", c |-> cond, p |-> pos, n |-> neg, loc |-> loc]
WhileExp(cond, body, loc) == [k |-> "While", c |-> cond, b |-> body, loc |-> loc]
ForExp(let, cond, inc, body, loc) ==
    [k |-> "For", let |-> let, c |-> cond, inc |-> inc, b |-> body, loc |-> loc]
BlockExp(exps, funs, loc) ==
    [k |-> "Block", exps |-> exps, funs |-> funs, loc |-> loc]
FunCallExp(id, args, loc) == [k |-> "FunCall", id |-> id, args |-> args, loc |-> loc]
FunDeclExp(id, loc) == [k |-> "FunDecl", id |-> id, loc |-> loc]
NoneExp == [k |-> "None"]

\* Literal: the tag and the value (a Float is kept in halves: Float 3 is 1.5)
Lit(t, v) == [t |-> t, v |-> v]

(***************************************************************************)
(* Results: Ok(exp), Err((message, Location)), or a panic (unreachable!(), *)
(* an index out of bounds).  pos is the cursor after the call.             *)
(***************************************************************************)
POk(exp, pos) == [st |-> "ok", exp |-> exp, pos |-> pos]
PErr(msg, loc, pos) == [st |-> "err", msg |-> msg, loc |-> loc, pos |-> pos]
PPanic(msg) == [st |-> "panic", msg |-> msg]

(***************************************************************************)
(* parser.rs: the static tables                                            *)
(***************************************************************************)
UNARY_OPERATORS == {"Minus", "Not"}

BINARY_OP_PRECEDENCE ==
    << {"Multiply", "Divide", "Modulo"},
       {"Plus", "Minus"},
       {"LessThan", "GreaterThan", "LessOrEquals", "GreaterOrEquals"},
       {"Equals", "NotEquals"},
       {"And"},
       {"Or"},
       {"Assign", "PlusAssign", "MinusAssign"} >>

(***************************************************************************)
(* Term                                                                    *)
(***************************************************************************)
ExpTerm(exp) == [k |-> "ExpTerm", exp |-> exp]
OpTerm(op, loc) == [k |-> "OpTerm", op |-> op, loc |-> loc]

(***************************************************************************)
(* precedence(): the split point.  The tiers are visited in reverse, the   *)
(* terms of a tier from the left; index 0 (here 1) is never a split point. *)
(* 0 when no tier has an operator to split at.                             *)
(***************************************************************************)
\* (a variant that takes the first term as a split point too)
TierHitsFromFirst(ts, tier) ==
    {i \in 1..Len(ts) : ts[i].k = "OpTerm" /\ ts[i].op \in BINARY_OP_PRECEDENCE[tier]}

TierHits(ts, tier) ==
    {i \in 2..Len(ts) : ts[i].k = "OpTerm" /\ ts[i].op \in BINARY_OP_PRECEDENCE[tier]}

Leftmost(S) == CHOOSE i \in S : \A j \in S : i <= j
Rightmost(S) == CHOOSE i \in S : \A j \in S : i >= j

\* (a variant that splits at the last operator of the tier)
RECURSIVE SplitFromRightmost(_, _)
SplitFromRightmost(ts, tier) ==
    IF tier = 0 THEN 0
    ELSE IF TierHits(ts, tier) # {} THEN Rightmost(TierHits(ts, tier))
    ELSE SplitFromRightmost(ts, tier - 1)

RECURSIVE SplitFrom(_, _)
SplitFrom(ts, tier) ==
    IF tier = 0 THEN 0
    ELSE IF TierHits(ts, tier) # {} THEN Leftmost(TierHits(ts, tier))
    ELSE SplitFrom(ts, tier - 1)

SplitIndex(ts) == SplitFrom(ts, Len(BINARY_OP_PRECEDENCE))

RECURSIVE precedence(_)
precedence(ts) ==
    IF Len(ts) > 0 /\ ts[Len(ts)].k = "OpTerm"
    THEN PErr("Unexpected operator", ts[Len(ts)].loc, 0)
    ELSE IF Len(ts) = 1
    THEN POk(ts[1].exp, 0)
    ELSE IF Len(ts) = 0
    THEN PPanic("unreachable")
    ELSE LET i == SplitIndex(ts) IN
    IF i # 0
    THEN LET left == precedence(SubSeq(ts, 1, i - 1)) IN
         IF left.st # "ok" THEN left
         ELSE LET right == precedence(SubSeq(ts, i + 1, Len(ts))) IN
              IF right.st # "ok" THEN right
              ELSE POk(BinOpExp(left.exp, ts[i].op, right.exp, ts[i].loc), 0)
    ELSE IF ts[1].k = "OpTerm"
    THEN IF ts[1].op \notin UNARY_OPERATORS
         THEN PErr("Not a unary operator", ts[1].loc, 0)
         ELSE LET rest == precedence(Tail(ts)) IN
              IF rest.st # "ok" THEN rest
              ELSE POk(UnOpExp(ts[1].op, rest.exp, ts[1].loc), 0)
    ELSE IF ts[2].k = "OpTerm"
    THEN PErr("Not a binary operator", ts[2].loc, 0)
    ELSE PPanic("unreachable")

(***************************************************************************)
(* any_operator(): the operator a token's text stands for                  *)
(***************************************************************************)
OperatorOf ==
    [x \in {"+", "-", "*", "/", "%", "<", ">", "<=", ">=", "!", "==", "=",
            "+=", "-=", "&&", "||", "!="} |->
        CASE x = "+" -> "Plus"
          [] x = "-" -> "Minus"
          [] x = "*" -> "Multiply"
          [] x = "/" -> "Divide"
          [] x = "%" -> "Modulo"
          [] x = "<" -> "LessThan"
          [] x = ">" -> "GreaterThan"
          [] x = "<=" -> "LessOrEquals"
          [] x = ">=" -> "GreaterOrEquals"
          [] x = "!" -> "Not"
          [] x = "==" -> "Equals"
          [] x = "=" -> "Assign"
          [] x = "+=" -> "PlusAssign"
          [] x = "-=" -> "MinusAssign"
          [] x = "&&" -> "And"
          [] x = "||" -> "Or"
          [] x = "!=" -> "NotEquals"]

AllOperators == {OperatorOf[x] : x \in DOMAIN OperatorOf}

(***************************************************************************)
(* expression(), seen from its Vec<Term>: the collection loop pushes an    *)
(* operator-term for an operator token and an operand-term otherwise,      *)
(* refusing an operand directly after an operand; at the terminator the    *)
(* terms go to precedence().  The operand at index i is the literal i.     *)
(***************************************************************************)
MaxTerms == 5

\* the operators the collected terms are drawn from: the two tightest
\* tiers whole, one operator of every looser tier, and the unary-only Not
TermOperators ==
    {"Multiply", "Divide", "Modulo", "Plus", "Minus", "LessThan", "Equals",
     "And", "Or", "Assign", "Not"}

PrecInit ==
    /\ terms = <<>>
    /\ pres = NoRes
    /\ lexed = <<>>
    /\ parsed = NoRes
    /\ TcIdle

PushOpTerm ==
    /\ pres.st = "none"
    /\ Len(terms) < MaxTerms
    /\ \E op \in TermOperators :
          terms' = Append(terms, OpTerm(op, Len(terms) + 1))
    /\ UNCHANGED <<pres, lexed, parsed, tcvars>>

PushExpTerm ==
    /\ pres.st = "none"
    /\ Len(terms) < MaxTerms
    /\ pres' = IF Len(terms) > 0 /\ terms[Len(terms)].k = "ExpTerm"
               THEN PErr("Expected operator or ';'", Len(terms) + 1, 0)
               ELSE pres
    /\ terms' = IF Len(terms) > 0 /\ terms[Len(terms)].k = "ExpTerm"
                THEN terms
                ELSE Append(terms, ExpTerm(LiteralExp(Lit("Int", Len(terms) + 1),
                                                      Len(terms) + 1)))
    /\ UNCHANGED <<lexed, parsed, tcvars>>

\* the loop ends at a terminator, which is EndOfInput or another one: with
\* no term collected the error is made with curr_loc(lexed)?, which fails
\* at EndOfInput with its own error
Establish ==
    /\ pres.st = "none"
    /\ \E eoi \in BOOLEAN :
          pres' = IF Len(terms) = 0
                  THEN IF eoi
                       THEN PErr("Unexpected end of input", 1, 1)
                       ELSE PErr("Expected something", 1, 0)
                  ELSE precedence(terms)
    /\ UNCHANGED <<terms, lexed, parsed, tcvars>>

PrecNext == PushOpTerm \/ PushExpTerm \/ Establish

SpecPrec == PrecInit /\ [][PrecNext]_vars

\* precedence() has been applied to the collected terms
Resolved ==
    \/ pres.st \in {"ok", "panic"}
    \/ /\ pres.st = "err"
       /\ pres.msg \notin {"Expected operator or ';'", "Expected something",
                        "Unexpected end of input"}

(***************************************************************************)
(* Claims about precedence()                                               *)
(***************************************************************************)
BinaryOperators == UNION {BINARY_OP_PRECEDENCE[t] : t \in DOMAIN BINARY_OP_PRECEDENCE}

\* the tier of a binary operator: 1 binds tightest, 7 loosest
TierOf(op) == CHOOSE t \in DOMAIN BINARY_OP_PRECEDENCE : op \in BINARY_OP_PRECEDENCE[t]

IsBinaryAt(ts, i) == ts[i].k = "OpTerm" /\ ts[i].op \in BinaryOperators

HasNonLeadingBinary(ts) == \E i \in 2..Len(ts) : IsBinaryAt(ts, i)

\* the terms an expression tree was built from, left to right
RECURSIVE InOrder(_)
InOrder(exp) ==
    CASE exp.k = "BinOp" -> InOrder(exp.l) \o <<OpTerm(exp.op, exp.loc)>> \o InOrder(exp.r)
      [] exp.k = "UnOp" -> <<OpTerm(exp.op, exp.loc)>> \o InOrder(exp.e)
      [] OTHER -> <<ExpTerm(exp)>>

\* exp is a BinOpExp rooted at the leftmost non-leading operator of the
\* loosest tier that ts has an operator of at an index other than the first,
\* whose operands are built from the terms to its left and to its right
RootedAtLoosestLeftmost(ts, exp) ==
    /\ exp.k = "BinOp"
    /\ exp.loc \in 2..Len(ts)
    /\ IsBinaryAt(ts, exp.loc)
    /\ ts[exp.loc].op = exp.op
    /\ \A i \in 2..Len(ts) :
          IsBinaryAt(ts, i) =>
             \/ TierOf(ts[i].op) < TierOf(exp.op)
             \/ TierOf(ts[i].op) = TierOf(exp.op) /\ i >= exp.loc
    /\ InOrder(exp.l) = SubSeq(ts, 1, exp.loc - 1)
    /\ InOrder(exp.r) = SubSeq(ts, exp.loc + 1, Len(ts))

L(i) == LiteralExp(Lit("Int", i), i)

\* 1 + 2 * 3 is 1 + (2 * 3) and 1 - 2 - 3 is 1 - (2 - 3)
PrecedenceExamples ==
    /\ terms = <<ExpTerm(L(1)), OpTerm("Plus", 2), ExpTerm(L(3)),
                 OpTerm("Multiply", 4), ExpTerm(L(5))>>
         => pres.exp = BinOpExp(L(1), "Plus", BinOpExp(L(3), "Multiply", L(5), 4), 2)
    /\ terms = <<ExpTerm(L(1)), OpTerm("Minus", 2), ExpTerm(L(3)),
                 OpTerm("Minus", 4), ExpTerm(L(5))>>
         => pres.exp = BinOpExp(L(1), "Minus", BinOpExp(L(3), "Minus", L(5), 4), 2)

\* C3 as stated: every term sequence with a binary operator at an index other
\* than 0 resolves to a BinOpExp rooted at the leftmost non-leading operator
\* of the loosest tier present.
C3_Original ==
    (Resolved /\ HasNonLeadingBinary(terms)) =>
        /\ pres.st = "ok"
        /\ RootedAtLoosestLeftmost(terms, pres.exp)

\* C3 amended: such a sequence resolves either to a syntax error (it ends in
\* an operator, or the slice left or right of the root does not resolve) or
\* to a BinOpExp rooted at the leftmost non-leading operator of the loosest
\* tier present among the non-leading operators, with the terms to its left
\* and right as its operands; 1 + 2 * 3 is 1 + (2 * 3) and 1 - 2 - 3 is
\* 1 - (2 - 3).
C3_RootIsLoosestLeftmost ==
    (Resolved /\ HasNonLeadingBinary(terms)) =>
        /\ pres.st \in {"ok", "err"}
        /\ pres.st = "err" =>
              \/ terms[Len(terms)].k = "OpTerm"
              \/ \E i \in 2..Len(terms) :
                    /\ IsBinaryAt(terms, i)
                    /\ \/ precedence(SubSeq(terms, 1, i - 1)).st = "err"
                       \/ precedence(SubSeq(terms, i + 1, Len(terms))).st = "err"
        /\ pres.st = "ok" =>
              /\ RootedAtLoosestLeftmost(terms, pres.exp)
              /\ PrecedenceExamples

\* C3 witness: a chain of two same-tier operators has been resolved to a
\* tree rooted at the first of them
C3_Witness ==
    /\ Resolved
    /\ Len(terms) = 5
    /\ pres.st = "ok"
    /\ terms[2].k = "OpTerm" /\ terms[2].op = "Minus"
    /\ terms[4].k = "OpTerm" /\ terms[4].op = "Minus"
    /\ pres.exp.loc = 2
    /\ pres.exp.r.k = "BinOp"

\* C10 as stated: for operands a and b and every binary operator op, the
\* terms a op - b resolve to BinOpExp(a, op, UnOpExp(Minus, b)): the Minus
\* that directly follows an operator is unary.
C10_MinusAfterOperatorIsUnary ==
    ( /\ Resolved
      /\ Len(terms) = 4
      /\ terms[1].k = "ExpTerm"
      /\ IsBinaryAt(terms, 2)
      /\ terms[3].k = "OpTerm" /\ terms[3].op = "Minus"
      /\ terms[4].k = "ExpTerm" ) =>
        /\ pres.st = "ok"
        /\ pres.exp = BinOpExp(terms[1].exp, terms[2].op,
                               UnOpExp("Minus", terms[4].exp, 3), 2)

(***************************************************************************)
(* The token stream: a sequence of LexToken, its last the EndOfInput       *)
(* sentinel; the Location of a token is its index.                         *)
(***************************************************************************)
Tok(t, v) == [t |-> t, v |-> v]
TInt(i) == Tok("Int", i)
TFloat(h) == Tok("Float", h)
TBool(b) == Tok("Bool", b)
TChar(c) == Tok("Char", c)
TStr(x) == Tok("Str", x)
TId(x) == Tok("Id", x)
TKw(x) == Tok("Keyword", x)
TType(x) == Tok("Type", x)
TOp(x) == Tok("Operator", x)
TParen(x) == Tok("Paren", x)
SemiColon == Tok("SemiColon", ";")
Comma == Tok("Comma", ",")
Colon == Tok("Colon", ":")
EndOfInput == Tok("EndOfInput", "")

IsParen(tk, c) == tk.t = "Paren" /\ tk.v = c
IsKeyword(tk, kw) == tk.t = "Keyword" /\ tk.v = kw
IsLiteralToken(tk) == tk.t \in {"Int", "Float", "Bool", "Char", "Str"}

Failed(r) == r.st # "ok"

\* TERMINATORS.contains(peek)
terminator(toks, pos) ==
    LET tk == toks[pos] IN
    \/ tk.t \in {"SemiColon", "Comma", "EndOfInput"}
    \/ tk.t = "Paren" /\ tk.v \in {")", "}", "]"}
    \/ IsKeyword(tk, "else")

curr_loc(toks, pos) ==
    IF toks[pos].t = "EndOfInput"
    THEN PErr("Unexpected end of input", pos, pos)
    ELSE POk(pos, pos)

\* Err((msg, curr_loc(lexed)?)): the end of input replaces the message
ErrHere(toks, pos, msg) ==
    IF Failed(curr_loc(toks, pos)) THEN curr_loc(toks, pos) ELSE PErr(msg, pos, pos)

any_operator(toks, pos) ==
    IF toks[pos].t = "Operator"
    THEN IF toks[pos].v \in DOMAIN OperatorOf
         THEN POk(OperatorOf[toks[pos].v], pos + 1)
         ELSE PErr("Unknown operator", pos, pos)
    ELSE ErrHere(toks, pos, "Expected an operator")

operator(toks, pos, op) ==
    LET a == any_operator(toks, pos) IN
    IF Failed(a) THEN ErrHere(toks, pos, "Expected operator")
    ELSE IF a.exp = op THEN a
    ELSE ErrHere(toks, a.pos, "Expected operator, got another")

keyword(toks, pos, kw) ==
    IF toks[pos].t = "Keyword"
    THEN IF toks[pos].v = kw THEN POk(kw, pos + 1) ELSE ErrHere(toks, pos, "")
    ELSE ErrHere(toks, pos, "Expected keyword")

id(toks, pos) ==
    IF toks[pos].t = "Id" THEN POk(toks[pos].v, pos + 1)
    ELSE ErrHere(toks, pos, "Expected an identifier")

any_type(toks, pos) ==
    IF toks[pos].t = "Type"
    THEN CASE toks[pos].v = "int" -> POk("Int", pos + 1)
           [] toks[pos].v = "float" -> POk("Float", pos + 1)
           [] toks[pos].v = "bool" -> POk("Bool", pos + 1)
           [] toks[pos].v = "char" -> POk("Char", pos + 1)
           [] toks[pos].v = "string" -> POk("Str", pos + 1)
           [] toks[pos].v = "unit" -> POk("Unit", pos + 1)
           [] OTHER -> PErr("Unknown type", pos, pos)
    ELSE ErrHere(toks, pos, "Expected a type")

literal(toks, pos) ==
    LET loc == curr_loc(toks, pos) IN
    IF Failed(loc) THEN loc
    ELSE IF IsLiteralToken(toks[pos])
    THEN POk(LiteralExp(Lit(toks[pos].t, toks[pos].v), pos), pos + 1)
    ELSE PErr("Expected literal", pos, pos)

semi_colon(toks, pos) ==
    IF toks[pos].t = "SemiColon" THEN POk(";", pos + 1)
    ELSE ErrHere(toks, pos, "Expected ';'")

colon(toks, pos) ==
    IF toks[pos].t = "Colon" THEN POk(":", pos + 1)
    ELSE ErrHere(toks, pos, "Expected ':'")

comma(toks, pos) ==
    IF toks[pos].t = "Comma" THEN POk(",", pos + 1)
    ELSE ErrHere(toks, pos, "Expected ','")

parenthesis(toks, pos, paren) ==
    IF toks[pos].t = "Paren"
    THEN IF toks[pos].v # paren THEN PErr("Expected parenthesis", pos, pos)
         ELSE POk(paren, pos + 1)
    ELSE ErrHere(toks, pos, "Expected parenthesis")

(***************************************************************************)
(* The recursive descent                                                   *)
(***************************************************************************)
Function(ret_type, param_types, params, exp, loc) ==
    [ret_type |-> ret_type, param_types |-> param_types, params |-> params,
     exp |-> exp, loc |-> loc]

\* (a variant that compares the payloads as they are)
AsF64Raw(lit) == lit.v

\* i as f64, in halves
AsF64(lit) == IF lit.t = "Int" THEN 2 * lit.v ELSE lit.v

(***************************************************************************)
(* The functions of the descent call one another, so they are the cases of *)
(* one recursive operator: Parser(rule, toks, pos, acc) is the function    *)
(* named rule applied to the cursor at pos; acc holds the vectors a loop   *)
(* has built so far.  The functions are defined by name after it.          *)
(***************************************************************************)
RECURSIVE Parser(_, _, _, _)
Parser(rule, toks, pos, acc) ==
    CASE rule = "statement" ->
      LET tk == toks[pos] IN
      IF IsParen(tk, "{") THEN Parser("block", toks, pos, <<>>)
      ELSE IF IsKeyword(tk, "while") THEN Parser("wwhile", toks, pos, <<>>)
      ELSE IF IsKeyword(tk, "for") THEN Parser("ffor", toks, pos, <<>>)
      ELSE IF IsKeyword(tk, "let") THEN Parser("llet", toks, pos, <<>>)
      ELSE IF IsKeyword(tk, "if") THEN Parser("iif", toks, pos, <<>>)
      ELSE Parser("expression", toks, pos, <<>>)
      [] rule = "term" ->
      LET tk == toks[pos] IN
      IF IsParen(tk, "{") THEN Parser("block", toks, pos, <<>>)
      ELSE IF IsKeyword(tk, "if") THEN Parser("iif", toks, pos, <<>>)
      ELSE IF IsParen(tk, "(") THEN Parser("parenthesized_exp", toks, pos, <<>>)
      ELSE IF IsLiteralToken(tk) THEN literal(toks, pos)
      ELSE IF tk.t = "Id" THEN Parser("var_or_fun_call", toks, pos, <<>>)
      ELSE ErrHere(toks, pos, "Expected a term")
      [] rule = "StatementsLoop" ->
      \* the while loop of parse_statements
      LET exps == acc[1]
          funs == acc[2]
          loc == acc[3]
      IN
      IF terminator(toks, pos) THEN POk(BlockExp(exps, funs, loc), pos)
      ELSE IF IsKeyword(toks[pos], "fun")
      THEN LET decl == Parser("fun_decl", toks, pos, <<>>) IN
           IF Failed(decl) THEN decl
           ELSE LET semi == semi_colon(toks, decl.pos) IN
                Parser("StatementsLoop", toks, IF Failed(semi) THEN decl.pos ELSE semi.pos,
                       <<Append(exps, decl.exp), Append(funs, <<decl.name, decl.fun>>), loc>>)
      ELSE LET stm == Parser("statement", toks, pos, <<>>) IN
           IF Failed(stm) THEN stm
           ELSE LET semi == semi_colon(toks, stm.pos) IN
                Parser("StatementsLoop", toks, IF Failed(semi) THEN stm.pos ELSE semi.pos,
                       <<Append(exps, stm.exp), funs, loc>>)
      [] rule = "parse_statements" ->
      LET loc == curr_loc(toks, pos) IN
      IF Failed(loc) THEN loc
      ELSE Parser("StatementsLoop", toks, pos, <<<<>>, <<>>, loc.exp>>)
      [] rule = "CollectTerms" ->
      \* the collection loop of expression; the result carries the terms
      LET ts == acc[1] IN
      IF terminator(toks, pos) THEN [st |-> "ok", terms |-> ts, pos |-> pos]
      ELSE IF toks[pos].t = "Operator"
      THEN LET op == any_operator(toks, pos) IN
           IF Failed(op) THEN op
           ELSE Parser("CollectTerms", toks, op.pos,
                       <<Append(ts, OpTerm(op.exp, pos))>>)
      ELSE IF Len(ts) > 0 /\ ts[Len(ts)].k = "ExpTerm"
      THEN ErrHere(toks, pos, "Expected operator or ';'")
      ELSE LET tm == Parser("term", toks, pos, <<>>) IN
           IF Failed(tm) THEN tm
           ELSE Parser("CollectTerms", toks, tm.pos,
                       <<Append(ts, ExpTerm(tm.exp))>>)
      [] rule = "expression" ->
      LET col == Parser("CollectTerms", toks, pos, <<<<>>>>) IN
      IF Failed(col) THEN col
      ELSE IF Len(col.terms) = 0 THEN ErrHere(toks, col.pos, "Expected something")
      ELSE LET res == precedence(col.terms) IN
           IF res.st = "ok" THEN POk(res.exp, col.pos)
           ELSE IF res.st = "err" THEN PErr(res.msg, res.loc, col.pos)
           ELSE res
      [] rule = "iif" ->
      LET loc == curr_loc(toks, pos) IN
      IF Failed(loc) THEN loc ELSE
      LET kw == keyword(toks, pos, "if") IN
      IF Failed(kw) THEN kw ELSE
      LET cond == Parser("parenthesized_exp", toks, kw.pos, <<>>) IN
      IF Failed(cond) THEN cond ELSE
      LET pstm == Parser("statement", toks, cond.pos, <<>>) IN
      IF Failed(pstm) THEN pstm ELSE
      LET els == keyword(toks, pstm.pos, "else") IN
      IF Failed(els)
      THEN POk(IfElseExp(cond.exp, pstm.exp, NoneExp, loc.exp), pstm.pos)
      ELSE LET nstm == Parser("statement", toks, els.pos, <<>>) IN
           IF Failed(nstm) THEN nstm
           ELSE POk(IfElseExp(cond.exp, pstm.exp, nstm.exp, loc.exp), nstm.pos)
      [] rule = "llet" ->
      LET loc == curr_loc(toks, pos) IN
      IF Failed(loc) THEN loc ELSE
      LET kw == keyword(toks, pos, "let") IN
      IF Failed(kw) THEN kw ELSE
      LET name == id(toks, kw.pos) IN
      IF Failed(name) THEN name ELSE
      LET eq == operator(toks, name.pos, "Assign") IN
      IF Failed(eq) THEN eq ELSE
      LET exp == Parser("expression", toks, eq.pos, <<>>) IN
      IF Failed(exp) THEN exp
      ELSE POk(LetExp(name.exp, exp.exp, loc.exp), exp.pos)
      [] rule = "wwhile" ->
      LET loc == curr_loc(toks, pos) IN
      IF Failed(loc) THEN loc ELSE
      LET kw == keyword(toks, pos, "while") IN
      IF Failed(kw) THEN kw ELSE
      LET cond == Parser("parenthesized_exp", toks, kw.pos, <<>>) IN
      IF Failed(cond) THEN cond ELSE
      LET exp == Parser("statement", toks, cond.pos, <<>>) IN
      IF Failed(exp) THEN exp
      ELSE POk(WhileExp(cond.exp, exp.exp, loc.exp), exp.pos)
      [] rule = "block" ->
      LET open == parenthesis(toks, pos, "{") IN
      IF Failed(open) THEN open ELSE
      LET blk == Parser("parse_statements", toks, open.pos, <<>>) IN
      IF Failed(blk) THEN blk ELSE
      LET close == parenthesis(toks, blk.pos, "}") IN
      IF Failed(close) THEN close
      ELSE POk(blk.exp, close.pos)
      [] rule = "parenthesized_exp" ->
      LET open == parenthesis(toks, pos, "(") IN
      IF Failed(open) THEN open ELSE
      LET exp == Parser("expression", toks, open.pos, <<>>) IN
      IF Failed(exp) THEN exp ELSE
      LET close == parenthesis(toks, exp.pos, ")") IN
      IF Failed(close) THEN close
      ELSE POk(exp.exp, close.pos)
      [] rule = "ArgsLoop" ->
      \* the argument loop of var_or_fun_call; the result carries the arguments
      LET args == acc[1] IN
      IF terminator(toks, pos) THEN [st |-> "ok", args |-> args, pos |-> pos]
      ELSE LET param == Parser("expression", toks, pos, <<>>) IN
           IF Failed(param) THEN param
           ELSE LET cm == comma(toks, param.pos) IN
                Parser("ArgsLoop", toks, IF Failed(cm) THEN param.pos ELSE cm.pos,
                       <<Append(args, param.exp)>>)
      [] rule = "var_or_fun_call" ->
      LET loc == curr_loc(toks, pos) IN
      IF Failed(loc) THEN loc ELSE
      LET name == id(toks, pos) IN
      IF Failed(name) THEN name ELSE
      IF IsParen(toks[name.pos], "(")
      THEN LET args == Parser("ArgsLoop", toks, name.pos + 1, <<<<>>>>) IN
           IF Failed(args) THEN args ELSE
           LET close == parenthesis(toks, args.pos, ")") IN
           IF Failed(close) THEN close
           ELSE POk(FunCallExp(name.exp, args.args, loc.exp), close.pos)
      ELSE POk(VarExp(name.exp, loc.exp), name.pos)
      [] rule = "ParamsLoop" ->
      \* the parameter loop of fun_decl; the result carries names and types
      LET params == acc[1]
          p_types == acc[2]
      IN
      LET param == id(toks, pos) IN
      IF Failed(param)
      THEN [st |-> "ok", params |-> params, p_types |-> p_types, pos |-> pos]
      ELSE LET col == colon(toks, param.pos) IN
           IF Failed(col) THEN col ELSE
           LET typ == any_type(toks, col.pos) IN
           IF Failed(typ) THEN typ ELSE
           LET cm == comma(toks, typ.pos) IN
           IF Failed(cm)
           THEN [st |-> "ok", params |-> Append(params, param.exp),
                 p_types |-> Append(p_types, typ.exp), pos |-> typ.pos]
           ELSE Parser("ParamsLoop", toks, cm.pos,
                       <<Append(params, param.exp), Append(p_types, typ.exp)>>)
      [] rule = "fun_decl" ->
      LET loc == curr_loc(toks, pos) IN
      IF Failed(loc) THEN loc ELSE
      LET kw == keyword(toks, pos, "fun") IN
      IF Failed(kw) THEN kw ELSE
      LET name == id(toks, kw.pos) IN
      IF Failed(name) THEN name ELSE
      LET open == parenthesis(toks, name.pos, "(") IN
      IF Failed(open) THEN open ELSE
      LET ps == Parser("ParamsLoop", toks, open.pos, <<<<>>, <<>>>>) IN
      IF Failed(ps) THEN ps ELSE
      LET close == parenthesis(toks, ps.pos, ")") IN
      IF Failed(close) THEN close ELSE
      LET col == colon(toks, close.pos) IN
      LET rt == IF Failed(col) THEN POk("Any", close.pos) ELSE any_type(toks, col.pos) IN
      IF Failed(rt) THEN rt ELSE
      LET eq == operator(toks, rt.pos, "Assign") IN
      IF Failed(eq) THEN eq ELSE
      LET exp == Parser("statement", toks, eq.pos, <<>>) IN
      IF Failed(exp) THEN exp
      ELSE [st |-> "ok", exp |-> FunDeclExp(name.exp, loc.exp), name |-> name.exp,
            fun |-> Function(rt.exp, ps.p_types, ps.params, exp.exp, loc.exp),
            pos |-> exp.pos]
      [] rule = "ffor" ->
      LET loc == curr_loc(toks, pos) IN
      IF Failed(loc) THEN loc ELSE
      LET kw == keyword(toks, pos, "for") IN
      IF Failed(kw) THEN kw ELSE
      LET open == parenthesis(toks, kw.pos, "(") IN
      IF Failed(open) THEN open ELSE
      LET name == id(toks, open.pos) IN
      IF ~Failed(name)
      THEN \* Normal for loop
           LET c1 == comma(toks, name.pos) IN
           IF Failed(c1) THEN c1 ELSE
           LET from == literal(toks, c1.pos) IN
           IF Failed(from) THEN from ELSE
           IF from.exp.lit.t \notin {"Int", "Float"}
           THEN PErr("From in for must be int or float", from.exp.loc, from.pos) ELSE
           LET c2 == comma(toks, from.pos) IN
           IF Failed(c2) THEN c2 ELSE
           LET to == literal(toks, c2.pos) IN
           IF Failed(to) THEN to ELSE
           IF to.exp.lit.t \notin {"Int", "Float"}
           THEN PErr("To in for must be int or float", to.exp.loc, to.pos) ELSE
           LET from_loc == from.exp.loc
               to_loc == to.exp.loc
               up == AsF64(to.exp.lit) > AsF64(from.exp.lit)
               op == IF up THEN "LessThan" ELSE "GreaterThan"
               inc == IF up THEN 1 ELSE -1
               let_exp == LetExp(name.exp, from.exp, from_loc)
               cond == BinOpExp(VarExp(name.exp, from_loc), op, to.exp, to_loc)
               c3 == comma(toks, to.pos)
               step == IF Failed(c3) THEN POk(LiteralExp(Lit("Int", inc), to_loc), to.pos)
                       ELSE LET exp == Parser("expression", toks, c3.pos, <<>>) IN
                            IF Failed(exp) THEN exp
                            ELSE IF inc < 0
                            THEN POk(UnOpExp("Minus", exp.exp, loc.exp), exp.pos)
                            ELSE exp
           IN
           IF Failed(step) THEN step ELSE
           LET increment == BinOpExp(VarExp(name.exp, to_loc), "PlusAssign",
                                     step.exp, to_loc)
               close == parenthesis(toks, step.pos, ")")
           IN
           IF Failed(close) THEN close ELSE
           LET body == Parser("statement", toks, close.pos, <<>>) IN
           IF Failed(body) THEN body
           ELSE POk(ForExp(let_exp, cond, increment, body.exp, loc.exp), body.pos)
      ELSE \* Simple for loop
           LET let_exp == LetExp(".for", LiteralExp(Lit("Int", 0), loc.exp), loc.exp)
               bound == Parser("expression", toks, open.pos, <<>>)
           IN
           IF Failed(bound) THEN bound ELSE
           LET cond == BinOpExp(VarExp(".for", loc.exp), "LessThan", bound.exp, loc.exp)
               increment == BinOpExp(VarExp(".for", loc.exp), "PlusAssign",
                                     LiteralExp(Lit("Int", 1), loc.exp), loc.exp)
               close == parenthesis(toks, bound.pos, ")")
           IN
           IF Failed(close) THEN close ELSE
           LET body == Parser("statement", toks, close.pos, <<>>) IN
           IF Failed(body) THEN body
           ELSE POk(ForExp(let_exp, cond, increment, body.exp, loc.exp), body.pos)

statement(toks, pos) == Parser("statement", toks, pos, <<>>)

term(toks, pos) == Parser("term", toks, pos, <<>>)

parse_statements(toks, pos) == Parser("parse_statements", toks, pos, <<>>)

expression(toks, pos) == Parser("expression", toks, pos, <<>>)

iif(toks, pos) == Parser("iif", toks, pos, <<>>)

llet(toks, pos) == Parser("llet", toks, pos, <<>>)

wwhile(toks, pos) == Parser("wwhile", toks, pos, <<>>)

ffor(toks, pos) == Parser("ffor", toks, pos, <<>>)

block(toks, pos) == Parser("block", toks, pos, <<>>)

parenthesized_exp(toks, pos) == Parser("parenthesized_exp", toks, pos, <<>>)

var_or_fun_call(toks, pos) == Parser("var_or_fun_call", toks, pos, <<>>)

fun_decl(toks, pos) == Parser("fun_decl", toks, pos, <<>>)

parse(toks, pos) == parse_statements(toks, pos)

(***************************************************************************)
(* The parser applied to a token stream.  The streams are for statements:  *)
(* the indexed form with every kind of from and to token and several       *)
(* steps, and the counting form over several bounds.                       *)
(***************************************************************************)
MaxLit == 2

\* the tokens tried as from and to: Int 0..MaxLit, Float 0..MaxLit in halves,
\* the other literal kinds, and two tokens that are no literal
FromToCount == 3 * MaxLit + 7
FromToToken(i) ==
    IF i <= MaxLit + 1 THEN TInt(i - 1)
    ELSE IF i <= 3 * MaxLit + 2 THEN TFloat(i - MaxLit - 2)
    ELSE <<TBool("true"), TChar("c"), TStr("s"), TId("n"), TOp("-")>>[i - 3 * MaxLit - 2]

StepPool ==
    << <<>>,
       <<Comma, TInt(2)>>,
       <<Comma, TId("s")>>,
       <<Comma, TOp("-"), TInt(1)>>,
       <<Comma, TInt(1), TOp("+"), TId("s")>>,
       <<Comma>> >>

BoundPool ==
    << <<TInt(3)>>,
       <<TFloat(3)>>,
       <<TBool("true")>>,
       <<TParen("("), TInt(1), TOp("+"), TInt(2), TParen(")")>>,
       <<TParen("("), TId("n"), TParen(")")>>,
       <<TOp("-"), TInt(1)>>,
       <<TOp("-"), TId("n")>>,
       <<TOp("!"), TBool("true")>>,
       <<TInt(2), TOp("*"), TId("n")>>,
       <<TId("n")>>,
       <<TId("n"), TOp("+"), TInt(1)>>,
       <<TId("f"), TParen("("), TInt(2), TParen(")")>>,
       <<TId("f"), TParen("("), TParen(")")>>,
       <<TInt(1), TInt(2)>>,
       <<TInt(1), TOp("+")>>,
       <<>> >>

BodyPool ==
    << <<TParen("{"), TParen("}")>>,
       <<TParen("{"), TId("x"), TOp("+="), TInt(1), SemiColon, TParen("}")>>,
       <<TId("x"), TOp("="), TId("x"), TOp("-"), TInt(1), SemiColon>>,
       <<TKw("if"), TParen("("), TBool("true"), TParen(")"), TId("x")>>,
       <<>> >>

ForTokens(header, body) ==
    <<TKw("for"), TParen("(")>> \o header \o <<TParen(")")>> \o body \o <<EndOfInput>>

ParseInit ==
    /\ terms = <<>>
    /\ pres = NoRes
    /\ parsed = NoRes
    /\ TcIdle
    /\ \E b \in DOMAIN BodyPool :
          \/ \E f \in 1..FromToCount, t \in 1..FromToCount, s \in DOMAIN StepPool :
                lexed = ForTokens(<<TId("i"), Comma, FromToToken(f), Comma, FromToToken(t)>>
                                      \o StepPool[s], BodyPool[b])
          \/ \E e \in DOMAIN BoundPool :
                lexed = ForTokens(BoundPool[e], BodyPool[b])

Parse ==
    /\ parsed.st = "none"
    /\ parsed' = parse(lexed, 1)
    /\ UNCHANGED <<terms, pres, lexed, tcvars>>

ParseNext == Parse

SpecParse == ParseInit /\ [][ParseNext]_vars

(***************************************************************************)
(* Claims about ffor()                                                     *)
(***************************************************************************)
Parsed == parsed.st # "none"

\* the value of a numeric literal token, in halves
Halves(tk) == IF tk.t = "Int" THEN 2 * tk.v ELSE tk.v

\* lexed is for ( id , literal , literal ...
IndexedHead ==
    /\ Len(lexed) >= 8
    /\ IsKeyword(lexed[1], "for") /\ IsParen(lexed[2], "(")
    /\ lexed[3].t = "Id" /\ lexed[4].t = "Comma"
    /\ IsLiteralToken(lexed[5]) /\ lexed[6].t = "Comma"
    /\ IsLiteralToken(lexed[7])

NumericFromTo == lexed[5].t \in {"Int", "Float"} /\ lexed[7].t \in {"Int", "Float"}

HasStep == lexed[8].t = "Comma"

\* the step expression and the position of the closing parenthesis
StepExp == expression(lexed, 9)
HeadEnd == IF HasStep THEN StepExp.pos ELSE 8

\* ... [, step] ) body, with the step and the body well-formed
IndexedTail ==
    /\ HasStep => StepExp.st = "ok"
    /\ IsParen(lexed[HeadEnd], ")")
    /\ statement(lexed, HeadEnd + 1).st = "ok"
    /\ lexed[statement(lexed, HeadEnd + 1).pos].t = "EndOfInput"

SameVar(exp, name) == exp.k = "Var" /\ exp.id = name
SameLit(exp, tk) == exp.k = "Literal" /\ exp.lit = Lit(tk.t, tk.v)

\* C6: for (id, from, to[, step]) body with from and to Int or Float literals
\* parses to ForExp(let id = from, cond, increment, body): to > from gives
\* id < to and id += 1 (or id += step), otherwise id > to and id += -1 (or
\* id += -(step)); a from or to literal of another kind is a parse error.
C6_IndexedFor ==
    (Parsed /\ IndexedHead) =>
        /\ ~NumericFromTo => parsed.st = "err"
        /\ (NumericFromTo /\ IndexedTail) =>
              /\ parsed.st = "ok"
              /\ Len(parsed.exp.exps) = 1
              /\ LET for == parsed.exp.exps[1]
                     up == Halves(lexed[7]) > Halves(lexed[5])
                 IN
                 /\ for.k = "For"
                 /\ for.let.k = "Let" /\ for.let.id = lexed[3].v
                 /\ SameLit(for.let.e, lexed[5])
                 /\ for.c.k = "BinOp" /\ SameVar(for.c.l, lexed[3].v)
                 /\ SameLit(for.c.r, lexed[7])
                 /\ for.c.op = IF up THEN "LessThan" ELSE "GreaterThan"
                 /\ for.inc.k = "BinOp" /\ for.inc.op = "PlusAssign"
                 /\ SameVar(for.inc.l, lexed[3].v)
                 /\ ~HasStep => for.inc.r.k = "Literal"
                                /\ for.inc.r.lit = Lit("Int", IF up THEN 1 ELSE -1)
                 /\ (HasStep /\ up) => for.inc.r = StepExp.exp
                 /\ (HasStep /\ ~up) =>
                        /\ for.inc.r.k = "UnOp" /\ for.inc.r.op = "Minus"
                        /\ for.inc.r.e = StepExp.exp
                 /\ for.b = statement(lexed, HeadEnd + 1).exp

\* C6 witness: a descending indexed loop with a step, from a Float to an Int
C6_Witness ==
    /\ Parsed /\ IndexedHead /\ HasStep
    /\ lexed[5].t = "Float" /\ lexed[7].t = "Int"
    /\ parsed.st = "ok"
    /\ parsed.exp.exps[1].c.op = "GreaterThan"
    /\ parsed.exp.exps[1].inc.r.k = "UnOp"

\* lexed is for ( expr ) body with expr and body well-formed
CountingInput ==
    /\ IsKeyword(lexed[1], "for")
    /\ parenthesized_exp(lexed, 2).st = "ok"
    /\ statement(lexed, parenthesized_exp(lexed, 2).pos).st = "ok"
    /\ lexed[statement(lexed, parenthesized_exp(lexed, 2).pos).pos].t = "EndOfInput"

\* C7 as stated: for (expr) body parses, whatever the first token of expr,
\* to ForExp(let .for = 0, .for < expr, .for += 1, body).
C7_CountingFor ==
    (Parsed /\ CountingInput) =>
        /\ parsed.st = "ok"
        /\ Len(parsed.exp.exps) = 1
        /\ LET for == parsed.exp.exps[1] IN
           /\ for.k = "For"
           /\ for.let.k = "Let" /\ for.let.id = ".for"
           /\ for.let.e.k = "Literal" /\ for.let.e.lit = Lit("Int", 0)
           /\ for.c.k = "BinOp" /\ for.c.op = "LessThan"
           /\ SameVar(for.c.l, ".for")
           /\ for.c.r = parenthesized_exp(lexed, 2).exp
           /\ for.inc.k = "BinOp" /\ for.inc.op = "PlusAssign"
           /\ SameVar(for.inc.l, ".for")
           /\ for.inc.r.k = "Literal" /\ for.inc.r.lit = Lit("Int", 1)
           /\ for.b = statement(lexed, parenthesized_exp(lexed, 2).pos).exp

(***************************************************************************)
(* Environment<Type>: a stack of scope frames, each with its variable      *)
(* bindings and its function closures.  A Closure holds the Function, the  *)
(* declared flag, the index of the frame it was registered in and the      *)
(* environment captured for it.  A captured environment keeps the closures *)
(* of its frames without their own captured environments, which no check   *)
(* reads: a callee found in it is checked in get_scope of it.              *)
(***************************************************************************)
EmptyEnv == [vars |-> <<>>, funs |-> <<>>]

Closure(name, fun, envir, scope) ==
    [id |-> name, fun |-> fun, declared |-> FALSE, decl_scope |-> scope,
     envir |-> envir]

Depth(env) == Len(env.vars)

enter_scope(env) ==
    [vars |-> Append(env.vars, <<>>), funs |-> Append(env.funs, <<>>)]

leave_scope(env) ==
    [vars |-> SubSeq(env.vars, 1, Len(env.vars) - 1),
     funs |-> SubSeq(env.funs, 1, Len(env.funs) - 1)]

InFrame(frame, name) == \E i \in DOMAIN frame : frame[i].id = name

var_exist_in_scope(env, name) == InFrame(env.vars[Depth(env)], name)

fun_exist_in_scope(env, name) == InFrame(env.funs[Depth(env)], name)

push_variable(env, name, typ) ==
    [env EXCEPT !.vars[Depth(env)] = Append(@, [id |-> name, typ |-> typ])]

\* the innermost frame that binds name, 0 if none
FrameOf(frames, name) ==
    IF \E d \in DOMAIN frames : InFrame(frames[d], name)
    THEN CHOOSE d \in DOMAIN frames :
            /\ InFrame(frames[d], name)
            /\ \A d2 \in DOMAIN frames : InFrame(frames[d2], name) => d2 <= d
    ELSE 0

\* the last binding of name in a frame
IndexIn(frame, name) ==
    CHOOSE i \in DOMAIN frame :
        /\ frame[i].id = name
        /\ \A j \in DOMAIN frame : frame[j].id = name => j <= i

VarFound(env, name) == FrameOf(env.vars, name) # 0
lookup_var(env, name) ==
    LET frame == env.vars[FrameOf(env.vars, name)] IN frame[IndexIn(frame, name)].typ

FunFound(env, name) == FrameOf(env.funs, name) # 0
lookup_fun(env, name) ==
    LET frame == env.funs[FrameOf(env.funs, name)] IN frame[IndexIn(frame, name)]

\* env without the captured environments of its closures
Captured(env) ==
    [vars |-> env.vars,
     funs |-> [d \in DOMAIN env.funs |->
                 [i \in DOMAIN env.funs[d] |->
                     [env.funs[d][i] EXCEPT !.envir = EmptyEnv]]]]

push_function(env, name, fun) ==
    [env EXCEPT !.funs[Depth(env)] =
        Append(@, Closure(name, fun, Captured(env), Depth(env)))]

\* every closure of frame d captures the closures of frame d as they are now
LinkSiblings(env, d) ==
    [env EXCEPT !.funs[d] =
        [i \in DOMAIN @ |->
            IF d \in DOMAIN @[i].envir.funs
            THEN [@[i] EXCEPT !.envir.funs[d] = Captured(env).funs[d]]
            ELSE @[i]]]

update_fun_envirs(env) == LinkSiblings(env, Depth(env))

\* marks the closure; the mark is seen by the checks of the bodies of the
\* functions of its block, which run in their captured environments
declare_fun(env, name) ==
    LET d == FrameOf(env.funs, name) IN
    IF d = 0 THEN env
    ELSE LinkSiblings(
            [env EXCEPT !.funs[d][IndexIn(env.funs[d], name)].declared = TRUE], d)

get_scope(env, scope) ==
    [vars |-> SubSeq(env.vars, 1, scope), funs |-> SubSeq(env.funs, 1, scope)]

(***************************************************************************)
(* type_check as a machine.  A frame of the stack is one call of           *)
(* Exp::type_check (k the variant of self) or of Function::type_check      *)
(* (k = "Function"): e is self, pc the point reached in the arm, ei the    *)
(* environment passed as envir, acc, i and clo the locals of the arm, d0   *)
(* the depth of envir on entry.  ret is what the last finished call        *)
(* returned: by is the node that made the result, ev the call that has     *)
(* just returned it, with the depth of its envir on entry and on return.   *)
(***************************************************************************)
MaxDepth == 14

NoClo == [id |-> ""]
NoRet == [k |-> "none"]

Frame(e, ei, d0) ==
    [k |-> e.k, e |-> e, pc |-> 0, ei |-> ei, acc |-> "-", i |-> 0, clo |-> NoClo,
     d0 |-> d0]

FunctionFrame(fun, ei, d0) ==
    [k |-> "Function", e |-> fun, pc |-> 0, ei |-> ei, acc |-> "-", i |-> 0,
     clo |-> NoClo, d0 |-> d0]

Top == stack[Len(stack)]
Env == envs[Top.ei]
Running(kind) == phase = "run" /\ ret.k # "Err" /\ Top.k = kind

Ok(typ, env) ==
    [k |-> "Ok", t |-> typ, msg |-> "", loc |-> 0,
     by |-> [k |-> Top.k, loc |-> Top.e.loc],
     ev |-> [k |-> Top.k, d0 |-> Top.d0, d1 |-> Depth(env)]]

Err(msg, loc, env) ==
    [k |-> "Err", t |-> "-", msg |-> msg, loc |-> loc,
     by |-> [k |-> Top.k, loc |-> Top.e.loc],
     ev |-> [k |-> Top.k, d0 |-> Top.d0, d1 |-> Depth(env)]]

Move(st, en, rt, ph) == [stack |-> st, envs |-> en, ret |-> rt, phase |-> ph]

Apply(n) ==
    /\ stack' = n.stack
    /\ envs' = n.envs
    /\ ret' = n.ret
    /\ phase' = n.phase

WithEnv(env) == [envs EXCEPT ![Top.ei] = env]

\* self calls sub.type_check(envir): the arm continues at its next pc when
\* the call has returned; the stack of the process is finite
Call(top, sub, env) ==
    IF Len(stack) >= MaxDepth
    THEN Move(stack, envs, ret, "overflow")
    ELSE Move(Append([stack EXCEPT ![Len(stack)] = top], Frame(sub, Top.ei, Depth(env))),
              WithEnv(env), NoRet, "run")

\* self calls fun.type_check(&mut env) on an environment of its own
CallFunction(top, fun, env) ==
    IF Len(stack) >= MaxDepth
    THEN Move(stack, envs, ret, "overflow")
    ELSE Move(Append([stack EXCEPT ![Len(stack)] = top],
                     FunctionFrame(fun, Len(envs) + 1, Depth(env))),
              Append(envs, env), NoRet, "run")

\* the arm goes on without a call
Goto(top, env) ==
    Move([stack EXCEPT ![Len(stack)] = top], WithEnv(env), NoRet, "run")

\* the call returns res, leaving envir as env
Return(res, env) ==
    Move(SubSeq(stack, 1, Len(stack) - 1),
         IF Top.k = "Function" THEN SubSeq(envs, 1, Top.ei - 1) ELSE WithEnv(env),
         res,
         IF Len(stack) = 1 THEN "done" ELSE "run")

\* (a variant that returns the message as an error of the call)
AbortAsErr(msg) == Return(Err(msg, Top.e.loc, Env), Env)

\* panic!() and unreachable!() end the process
Abort(msg) ==
    Move(stack, envs,
         [k |-> "Panic", t |-> "-", msg |-> msg, loc |-> 0,
          by |-> [k |-> Top.k, loc |-> Top.e.loc],
          ev |-> [k |-> Top.k, d0 |-> Top.d0, d1 |-> Depth(Env)]],
         "panic")

At(pc) == [Top EXCEPT !.pc = pc]

Numeric == {"Int", "Float"}

\* the arms for the operators that check both operands
BinOpType(op, left, right) ==
    CASE op \in {"Plus", "Minus", "Multiply", "Divide", "Modulo"} ->
            IF left = "Int" /\ right = "Int" THEN "Int"
            ELSE IF left \in Numeric /\ right \in Numeric THEN "Float"
            ELSE "-"
      [] op \in {"LessThan", "GreaterThan", "LessOrEquals", "GreaterOrEquals"} ->
            IF left \in Numeric /\ right \in Numeric THEN "Bool" ELSE "-"
      [] op \in {"Equals", "NotEquals"} ->
            IF left = right /\ left \in {"Int", "Float", "Bool"} THEN "Bool" ELSE "-"
      [] op \in {"And", "Or"} ->
            IF left = "Bool" /\ right = "Bool" THEN "Bool" ELSE "-"

AssignOps == {"Assign", "PlusAssign", "MinusAssign"}

\* Assign: the error of a mismatch carries the loc bound by the pattern
\* VarExp(id, loc), which shadows the loc of the BinOpExp
AssignResult(e, value, env) ==
    IF e.l.k # "Var" THEN Abort("Not a variable expression")
    ELSE IF ~VarFound(env, e.l.id)
    THEN Return(Err("Variable does not exist here", e.l.loc, env), env)
    ELSE IF lookup_var(env, e.l.id) # value
    THEN Return(Err("Cannot assign", e.l.loc, env), env)
    ELSE Return(Ok("Unit", env), env)

PlusAssignResult(e, value, env) ==
    IF e.l.k # "Var" THEN Abort("Not a variable expression")
    ELSE IF ~VarFound(env, e.l.id)
    THEN Return(Err("Variable does not exist here", e.l.loc, env), env)
    ELSE IF lookup_var(env, e.l.id) = value /\ value \in Numeric
    THEN Return(Ok("Unit", env), env)
    ELSE Return(Err("Cannot add", e.loc, env), env)

CheckBinOp ==
    /\ Running("BinOp")
    /\ LET e == Top.e IN
       Apply(
         IF e.op = "Not" THEN Abort("Not a binary operator")
         ELSE IF e.op \in AssignOps
         THEN IF Top.pc = 0 THEN Call(At(2), e.r, Env)
              ELSE IF e.op = "Assign" THEN AssignResult(e, ret.t, Env)
              ELSE PlusAssignResult(e, ret.t, Env)
         ELSE IF Top.pc = 0 THEN Call(At(1), e.l, Env)
         ELSE IF Top.pc = 1 THEN Call([At(2) EXCEPT !.acc = ret.t], e.r, Env)
         ELSE IF BinOpType(e.op, Top.acc, ret.t) = "-"
         THEN Return(Err("Invalid operation", e.loc, Env), Env)
         ELSE Return(Ok(BinOpType(e.op, Top.acc, ret.t), Env), Env))
    /\ UNCHANGED <<terms, pres, lexed, parsed>>

UnOpType(op, typ) ==
    IF op = "Minus" THEN (IF typ \in Numeric THEN typ ELSE "-")
    ELSE IF typ = "Bool" THEN "Bool" ELSE "-"

CheckUnOp ==
    /\ Running("UnOp")
    /\ LET e == Top.e IN
       Apply(
         IF e.op \notin {"Minus", "Not"} THEN Abort("Not a unary operator")
         ELSE IF Top.pc = 0 THEN Call(At(1), e.e, Env)
         ELSE IF UnOpType(e.op, ret.t) = "-"
         THEN Return(Err("Unary operator is not valid", e.loc, Env), Env)
         ELSE Return(Ok(UnOpType(e.op, ret.t), Env), Env))
    /\ UNCHANGED <<terms, pres, lexed, parsed>>

\* the arms that exist: Int, Float, Bool, and Unit, which is unreachable!()
CheckLiteral ==
    /\ Running("Literal")
    /\ Top.e.lit.t \in {"Int", "Float", "Bool", "Unit"}
    /\ Apply(IF Top.e.lit.t \in {"Int", "Float", "Bool"}
             THEN Return(Ok(Top.e.lit.t, Env), Env)
             ELSE Abort("Unit should not show up as a literal"))
    /\ UNCHANGED <<terms, pres, lexed, parsed>>

CheckVar ==
    /\ Running("Var")
    /\ Apply(IF VarFound(Env, Top.e.id)
             THEN Return(Ok(lookup_var(Env, Top.e.id), Env), Env)
             ELSE Return(Err("Variable does not exist here", Top.e.loc, Env), Env))
    /\ UNCHANGED <<terms, pres, lexed, parsed>>

CheckLet ==
    /\ Running("Let")
    /\ LET e == Top.e IN
       Apply(
         IF Top.pc = 0
         THEN IF var_exist_in_scope(Env, e.id)
              THEN Return(Err("already exist in this scope", e.loc, Env), Env)
              ELSE Call(At(1), e.e, Env)
         ELSE LET env == push_variable(Env, e.id, ret.t) IN
              Return(Ok("Unit", env), env))
    /\ UNCHANGED <<terms, pres, lexed, parsed>>

CheckIfElse ==
    /\ Running("IfElse")
    /\ LET e == Top.e IN
       Apply(
         IF Top.pc = 0 THEN Call(At(1), e.c, Env)
         ELSE IF Top.pc = 1
         THEN IF ret.t # "Bool"
              THEN Return(Err("Condition for if must be boolean", e.loc, Env), Env)
              ELSE Call(At(2), e.p, Env)
         ELSE IF Top.pc = 2
         THEN IF e.n.k # "None"
              THEN Call([At(3) EXCEPT !.acc = ret.t], e.n, Env)
              ELSE Return(Ok("Unit", Env), Env)
         ELSE IF Top.acc # ret.t
         THEN Return(Err("If and else branch must have same type", e.loc, Env), Env)
         ELSE Return(Ok(Top.acc, Env), Env))
    /\ UNCHANGED <<terms, pres, lexed, parsed>>

\* the body of the loop is not checked
CheckWhile ==
    /\ Running("While")
    /\ LET e == Top.e IN
       Apply(
         IF Top.pc = 0 THEN Call(At(1), e.c, Env)
         ELSE IF ret.t # "Bool"
         THEN Return(Err("Condition for while must be boolean", e.loc, Env), Env)
         ELSE Return(Ok("Unit", Env), Env))
    /\ UNCHANGED <<terms, pres, lexed, parsed>>

\* (a variant that registers every function, whatever the frame has)
RECURSIVE RegisterUnchecked(_, _, _)
RegisterUnchecked(env, funs, i) ==
    IF i > Len(funs) THEN [env |-> env, dup |-> FALSE]
    ELSE RegisterUnchecked(push_function(env, funs[i][1], funs[i][2]), funs, i + 1)

\* the loop over funs: stops at the first name the frame already has
RECURSIVE RegisterFrom(_, _, _)
RegisterFrom(env, funs, i) ==
    IF i > Len(funs) THEN [env |-> env, dup |-> FALSE]
    ELSE IF fun_exist_in_scope(env, funs[i][1]) THEN [env |-> env, dup |-> TRUE]
    ELSE RegisterFrom(push_function(env, funs[i][1], funs[i][2]), funs, i + 1)

CheckBlock ==
    /\ Running("Block")
    /\ LET e == Top.e
           reg == RegisterFrom(enter_scope(Env), e.funs, 1)
           linked == update_fun_envirs(reg.env)
       IN
       Apply(
         IF Top.pc = 0
         THEN IF reg.dup
              THEN Return(Err("already exist in this scope", e.loc, reg.env), reg.env)
              ELSE IF Len(e.exps) = 0
              THEN Return(Ok("Unit", leave_scope(linked)), leave_scope(linked))
              ELSE Call([At(1) EXCEPT !.i = 1], e.exps[1], linked)
         ELSE IF Top.i < Len(e.exps)
         THEN Call([Top EXCEPT !.i = @ + 1], e.exps[Top.i + 1], Env)
         ELSE Return(Ok(ret.t, leave_scope(Env)), leave_scope(Env)))
    /\ UNCHANGED <<terms, pres, lexed, parsed>>

\* (a variant that lets a call through whatever the return type)
NeedsAnnotationNever(clo) == FALSE

NeedsAnnotation(clo) == clo.fun.ret_type = "Any"

\* after the arguments: the body of a callee not yet declared is checked in
\* the scope of its declaration; the callee is not marked
AfterArgs(top, env) ==
    IF ~top.clo.declared
    THEN CallFunction([top EXCEPT !.pc = 2], top.clo.fun,
                      get_scope(env, top.clo.decl_scope))
    ELSE Return(Ok(top.clo.fun.ret_type, env), env)

\* (a variant that looks at the argument count first)
FunCallEntryCountFirst(e, env) ==
    IF ~FunFound(env, e.id)
    THEN Return(Err("Function does not exist here", e.loc, env), env)
    ELSE LET closure == lookup_fun(env, e.id) IN
    IF Len(e.args) # Len(closure.fun.param_types)
    THEN Abort("Incorrect argument count")
    ELSE IF NeedsAnnotation(closure)
    THEN Return(Err("need type annotations", e.loc, env), env)
    ELSE IF Len(e.args) > 0
    THEN Call([At(1) EXCEPT !.clo = closure, !.i = 1], e.args[1], env)
    ELSE AfterArgs([Top EXCEPT !.clo = closure], env)

FunCallEntry(e, env) ==
    IF ~FunFound(env, e.id)
    THEN Return(Err("Function does not exist here", e.loc, env), env)
    ELSE LET closure == lookup_fun(env, e.id) IN
    IF NeedsAnnotation(closure)
    THEN Return(Err("need type annotations", e.loc, env), env)
    ELSE IF Len(e.args) # Len(closure.fun.param_types)
    THEN Abort("Incorrect argument count")
    ELSE IF Len(e.args) > 0
    THEN Call([At(1) EXCEPT !.clo = closure, !.i = 1], e.args[1], env)
    ELSE AfterArgs([Top EXCEPT !.clo = closure], env)

CheckFunCall ==
    /\ Running("FunCall")
    /\ LET e == Top.e IN
       Apply(
         IF Top.pc = 0 THEN FunCallEntry(e, Env)
         ELSE IF Top.pc = 1
         THEN IF ret.t # Top.clo.fun.param_types[Top.i]
              THEN Abort("Incorrect argument type")
              ELSE IF Top.i < Len(e.args)
              THEN Call([Top EXCEPT !.i = @ + 1], e.args[Top.i + 1], Env)
              ELSE AfterArgs(Top, Env)
         ELSE Return(Ok(Top.clo.fun.ret_type, Env), Env))
    /\ UNCHANGED <<terms, pres, lexed, parsed>>

CheckFunDecl ==
    /\ Running("FunDecl")
    /\ LET e == Top.e
           env == declare_fun(Env, e.id)
       IN
       Apply(
         IF Top.pc = 0
         THEN IF ~FunFound(env, e.id) THEN Abort("unwrap on an Err value")
              ELSE LET clo == lookup_fun(env, e.id) IN
                   IF Len(stack) >= MaxDepth THEN Move(stack, envs, ret, "overflow")
                   ELSE Move(Append([stack EXCEPT ![Len(stack)] =
                                        [At(1) EXCEPT !.clo = clo]],
                                    FunctionFrame(clo.fun, Len(envs) + 1,
                                                  Depth(clo.envir))),
                             Append(WithEnv(env), clo.envir), NoRet, "run")
         ELSE Return(Ok(ret.t, Env), Env))
    /\ UNCHANGED <<terms, pres, lexed, parsed>>

RECURSIVE PushParams(_, _, _)
PushParams(env, fun, i) ==
    IF i > Len(fun.param_types) THEN env
    ELSE PushParams(push_variable(env, fun.params[i], fun.param_types[i]), fun, i + 1)

\* self.ret_type = res writes the Function of the caller's Closure, which is
\* the copy lookup_fun returned
Adopt(st, res) ==
    [st EXCEPT ![Len(st)].clo.fun.ret_type = res]

CheckFunction ==
    /\ Running("Function")
    /\ LET fun == Top.e
           left == leave_scope(Env)
       IN
       Apply(
         IF Top.pc = 0
         THEN Call(At(1), fun.exp, PushParams(enter_scope(Env), fun, 1))
         ELSE IF fun.ret_type = "Any"
         THEN LET n == Return(Ok(ret.t, left), left) IN
              [n EXCEPT !.stack = Adopt(n.stack, ret.t)]
         ELSE IF fun.ret_type # ret.t
         THEN Return(Err("Return type does not match annotation", fun.loc, left), left)
         ELSE Return(Ok(ret.t, left), left))
    /\ UNCHANGED <<terms, pres, lexed, parsed>>

\* the ? operator: the caller returns the Err it was handed
Propagate ==
    /\ phase = "run"
    /\ ret.k = "Err"
    /\ Apply(Return([ret EXCEPT !.ev = [k |-> Top.k, d0 |-> Top.d0, d1 |-> Depth(Env)]],
                    Env))
    /\ UNCHANGED <<terms, pres, lexed, parsed>>

(***************************************************************************)
(* The front end on a program: the token stream is parsed and the root     *)
(* BlockExp is type-checked in an empty environment.  A program is a       *)
(* sequence of at most MaxStmts of the statements below.                   *)
(***************************************************************************)
MaxStmts == 3

FunTokens(name, annotation, body) ==
    <<TKw("fun"), TId(name), TParen("("), TParen(")")>> \o annotation
        \o <<TOp("=")>> \o body \o <<SemiColon>>

CallTokens(name) == <<TId(name), TParen("("), TParen(")")>>

StatementPool ==
    << \* let x = 1;
       <<TKw("let"), TId("x"), TOp("="), TInt(1), SemiColon>>,
       \* x = 2;
       <<TId("x"), TOp("="), TInt(2), SemiColon>>,
       \* x = true;
       <<TId("x"), TOp("="), TBool("true"), SemiColon>>,
       \* { let x = true; !x };
       <<TParen("{"), TKw("let"), TId("x"), TOp("="), TBool("true"), SemiColon,
         TOp("!"), TId("x"), TParen("}"), SemiColon>>,
       \* fun f(): int = g();
       FunTokens("f", <<Colon, TType("int")>>, CallTokens("g")),
       \* fun g(): int = f();
       FunTokens("g", <<Colon, TType("int")>>, CallTokens("f")),
       \* fun f(): int = f();
       FunTokens("f", <<Colon, TType("int")>>, CallTokens("f")),
       \* fun u(n: int) = n;
       <<TKw("fun"), TId("u"), TParen("("), TId("n"), Colon, TType("int"),
         TParen(")"), TOp("="), TId("n"), SemiColon>>,
       \* fun r() = r();
       FunTokens("r", <<>>, CallTokens("r")),
       \* f();
       CallTokens("f") \o <<SemiColon>>,
       \* u(1);
       <<TId("u"), TParen("("), TInt(1), TParen(")"), SemiColon>>,
       \* u();
       CallTokens("u") \o <<SemiColon>>,
       \* { fun f(n: int): int = n; f(1) };
       <<TParen("{"), TKw("fun"), TId("f"), TParen("("), TId("n"), Colon,
         TType("int"), TParen(")"), Colon, TType("int"), TOp("="), TId("n"),
         SemiColon, TId("f"), TParen("("), TInt(1), TParen(")"), TParen("}"),
         SemiColon>>,
       \* while (if (x < 1) true else false) x;
       <<TKw("while"), TParen("("), TKw("if"), TParen("("), TId("x"), TOp("<"),
         TInt(1), TParen(")"), TBool("true"), TKw("else"), TBool("false"),
         TParen(")"), TId("x"), SemiColon>> >>

RECURSIVE Program(_, _)
Program(choice, i) ==
    IF i > Len(choice) THEN <<EndOfInput>>
    ELSE StatementPool[choice[i]] \o Program(choice, i + 1)

Init ==
    /\ terms = <<>>
    /\ pres = NoRes
    /\ \E n \in 1..MaxStmts :
          \E choice \in [1..n -> DOMAIN StatementPool] :
             lexed = Program(choice, 1)
    /\ parsed = NoRes
    /\ TcIdle

\* main: root.type_check(&mut Environment::new()) on the parsed program
TypeCheck ==
    /\ phase = "idle"
    /\ parsed.st = "ok"
    /\ stack' = <<Frame(parsed.exp, 1, 0)>>
    /\ envs' = <<EmptyEnv>>
    /\ ret' = NoRet
    /\ phase' = "run"
    /\ UNCHANGED <<terms, pres, lexed, parsed>>

Next ==
    \/ Parse
    \/ TypeCheck
    \/ CheckBinOp
    \/ CheckUnOp
    \/ CheckLiteral
    \/ CheckVar
    \/ CheckLet
    \/ CheckIfElse
    \/ CheckWhile
    \/ CheckBlock
    \/ CheckFunCall
    \/ CheckFunDecl
    \/ CheckFunction
    \/ Propagate

Spec == Init /\ [][Next]_vars

(***************************************************************************)
(* The front end on programs of calls: functions with annotated return     *)
(* types and parameters, calls to them with matching and mismatching       *)
(* arguments, and top-level tokens that are terminators.                   *)
(***************************************************************************)
FrontPool ==
    << \* let x = 1;
       <<TKw("let"), TId("x"), TOp("="), TInt(1), SemiColon>>,
       \* fun h(n: int): int = n;
       <<TKw("fun"), TId("h"), TParen("("), TId("n"), Colon, TType("int"),
         TParen(")"), Colon, TType("int"), TOp("="), TId("n"), SemiColon>>,
       \* h(true);
       <<TId("h"), TParen("("), TBool("true"), TParen(")"), SemiColon>>,
       \* h(-x);
       <<TId("h"), TParen("("), TOp("-"), TId("x"), TParen(")"), SemiColon>>,
       \* h();
       CallTokens("h") \o <<SemiColon>>,
       \* fun k(b: bool, n: int): int = h(n);
       <<TKw("fun"), TId("k"), TParen("("), TId("b"), Colon, TType("bool"), Comma,
         TId("n"), Colon, TType("int"), TParen(")"), Colon, TType("int"),
         TOp("="), TId("h"), TParen("("), TId("n"), TParen(")"), SemiColon>>,
       \* k(true, true);
       <<TId("k"), TParen("("), TBool("true"), Comma, TBool("true"), TParen(")"),
         SemiColon>>,
       \* while (if (x < 1) true else false) x;
       <<TKw("while"), TParen("("), TKw("if"), TParen("("), TId("x"), TOp("<"),
         TInt(1), TParen(")"), TBool("true"), TKw("else"), TBool("false"),
         TParen(")"), TId("x"), SemiColon>>,
       \* ;
       <<SemiColon>>,
       \* )
       <<TParen(")")>> >>

RECURSIVE FrontProgram(_, _)
FrontProgram(choice, i) ==
    IF i > Len(choice) THEN <<EndOfInput>>
    ELSE FrontPool[choice[i]] \o FrontProgram(choice, i + 1)

FrontInit ==
    /\ terms = <<>>
    /\ pres = NoRes
    /\ \E n \in 1..MaxStmts :
          \E choice \in [1..n -> DOMAIN FrontPool] :
             lexed = FrontProgram(choice, 1)
    /\ parsed = NoRes
    /\ TcIdle

SpecFront == FrontInit /\ [][Next]_vars

(***************************************************************************)
(* Claims about type_check                                                 *)
(***************************************************************************)
SettledTypes == {"Int", "Float", "Bool", "Char", "Str", "Unit"}

Declares(funs, name) == \E i \in DOMAIN funs : funs[i][1] = name

DeclaredAs(funs, name) ==
    funs[CHOOSE i \in DOMAIN funs : funs[i][1] = name][2]

\* the program is a block of functions with one annotated return type, each
\* with a body that calls a function of the block, and of calls to them
RecursiveProgram ==
    /\ parsed.st = "ok"
    /\ LET funs == parsed.exp.funs
           exps == parsed.exp.exps
       IN
       /\ Len(funs) > 0
       /\ \A i, j \in DOMAIN funs : funs[i][1] = funs[j][1] => i = j
       /\ \A i \in DOMAIN funs :
             /\ funs[i][2].ret_type # "Any"
             /\ funs[i][2].ret_type = funs[1][2].ret_type
             /\ Len(funs[i][2].params) = 0
             /\ funs[i][2].exp.k = "FunCall"
             /\ Len(funs[i][2].exp.args) = 0
             /\ Declares(funs, funs[i][2].exp.id)
       /\ \A i \in DOMAIN exps :
             \/ exps[i].k = "FunDecl"
             \/ /\ exps[i].k = "FunCall"
                /\ Len(exps[i].args) = 0
                /\ Declares(funs, exps[i].id)

\* C1 as stated: the check of a block of annotated functions that call one
\* another (or themselves) terminates and returns Ok, whatever the order of
\* the declarations and whether or not a call precedes the FunDecl
\* placeholders; no body check is re-entered without bound.
C1_RecursionTerminates ==
    RecursiveProgram =>
        /\ phase \notin {"overflow", "panic"}
        /\ phase = "done" => ret.k = "Ok"

\* a FunCall is at its entry and its callee's return type is Any
AnyCallee ==
    /\ Running("FunCall")
    /\ Top.pc = 0
    /\ FunFound(Env, Top.e.id)
    /\ lookup_fun(Env, Top.e.id).fun.ret_type = "Any"

\* C2: a FunCall whose callee's return type is still Any returns the error
\* 'need type annotations' at the Location of the call, before the argument
\* count, the argument types and the body of the callee are looked at: the
\* call returns at once, it neither aborts nor calls anything.
C2_AnyCalleeIsError ==
    [][AnyCallee =>
          /\ ret'.k = "Err"
          /\ ret'.msg = "need type annotations"
          /\ ret'.loc = Top.e.loc
          /\ phase' \in {"run", "done"}
          /\ stack' = SubSeq(stack, 1, Len(stack) - 1)
          /\ envs' = envs]_vars

\* u(); fun u(n: int) = ...; has returned the error from the call u(), which
\* has the wrong number of arguments
C2_Witness ==
    /\ parsed.st = "ok"
    /\ Len(parsed.exp.exps) >= 2
    /\ LET call == parsed.exp.exps[1] IN
       /\ call.k = "FunCall"
       /\ Declares(parsed.exp.funs, call.id)
       /\ DeclaredAs(parsed.exp.funs, call.id).ret_type = "Any"
       /\ Len(call.args) # Len(DeclaredAs(parsed.exp.funs, call.id).params)
       /\ ret.k = "Err"
       /\ ret.msg = "need type annotations"
       /\ ret.ev.k = "FunCall"
       /\ ret.loc = call.loc

\* the value of an Assign to a visible variable has been checked
AssignChecked ==
    /\ Running("BinOp")
    /\ Top.e.op = "Assign"
    /\ Top.pc = 2
    /\ Top.e.l.k = "Var"
    /\ VarFound(Env, Top.e.l.id)

\* C4 as stated: x = e with x of type T and e of type V yields Unit exactly
\* when V = T; when V differs the error carries the Location of the
\* assignment (the loc of the BinOpExp); no binding changes in either case.
C4_AssignErrorAtAssignment ==
    [][AssignChecked =>
          /\ envs' = envs
          /\ IF ret.t = lookup_var(Env, Top.e.l.id)
             THEN ret'.k = "Ok" /\ ret'.t = "Unit"
             ELSE ret'.k = "Err" /\ ret'.loc = Top.e.loc]_vars

Min(a, b) == IF a < b THEN a ELSE b

DupFuns(funs) == \E i, j \in DOMAIN funs : i # j /\ funs[i][1] = funs[j][1]

\* a step changes the bindings of the innermost frame only, and changes none
\* when it enters or leaves a frame
OuterBindingsKept ==
    \A ei \in DOMAIN envs \cap DOMAIN envs' :
        LET m == Min(Depth(envs[ei]), Depth(envs'[ei])) IN
        \A d \in 1..m :
            (d < m \/ Depth(envs'[ei]) # Depth(envs[ei]))
                => envs'[ei].vars[d] = envs[ei].vars[d]

\* let x = <int>; { let x = <other>; ... }; x = <int>;
ShadowProgram ==
    /\ parsed.st = "ok"
    /\ Len(parsed.exp.exps) = 3
    /\ LET outer == parsed.exp.exps[1]
           nested == parsed.exp.exps[2]
           after == parsed.exp.exps[3]
       IN
       /\ outer.k = "Let" /\ outer.e.k = "Literal" /\ outer.e.lit.t = "Int"
       /\ nested.k = "Block" /\ Len(nested.exps) > 0
       /\ nested.exps[1].k = "Let" /\ nested.exps[1].id = outer.id
       /\ nested.exps[1].e.k = "Literal" /\ nested.exps[1].e.lit.t = "Bool"
       /\ after.k = "BinOp" /\ after.op = "Assign"
       /\ after.l.k = "Var" /\ after.l.id = outer.id
       /\ after.r.k = "Literal" /\ after.r.lit.t = "Int"

\* C5: a Let of a name the innermost frame binds is an error and changes no
\* binding; a block with two functions of one name is an error; a Let of a
\* name bound only in an enclosing frame goes on, binds the name in the
\* innermost frame to the type of its value and leaves the outer frames as
\* they are; a block that returns Ok leaves the frames it was entered with,
\* so the outer binding is back with its type.
C5_RedeclareAndShadow ==
    [][/\ (Running("Let") /\ Top.pc = 0 /\ var_exist_in_scope(Env, Top.e.id)) =>
              /\ ret'.k = "Err"
              /\ ret'.msg = "already exist in this scope"
              /\ envs' = envs
       /\ (Running("Block") /\ Top.pc = 0 /\ DupFuns(Top.e.funs)) =>
              /\ ret'.k = "Err"
              /\ ret'.msg = "already exist in this scope"
       /\ (Running("Block") /\ Top.pc = 0 /\ ~DupFuns(Top.e.funs)) =>
              ret'.k # "Err"
       /\ (Running("Let") /\ Top.pc = 0 /\ ~var_exist_in_scope(Env, Top.e.id)
              /\ Len(stack) < MaxDepth) =>
              /\ ret'.k # "Err"
              /\ Len(stack') = Len(stack) + 1
       /\ (Running("Let") /\ Top.pc = 1) =>
              /\ ret'.k = "Ok" /\ ret'.t = "Unit"
              /\ lookup_var(envs'[Top.ei], Top.e.id) = ret.t
       /\ (Running("Block") /\ Len(stack') < Len(stack) /\ ret'.k = "Ok") =>
              Depth(envs'[Top.ei]) = Top.d0
       /\ OuterBindingsKept
       /\ (ShadowProgram /\ phase = "done") => ret.k = "Ok"]_vars

\* the nested block has shadowed x and the assignment after it has found x
\* with the type of the outer let
C5_Witness ==
    /\ ShadowProgram
    /\ phase = "done"
    /\ ret.k = "Ok"
    /\ ret.t = "Unit"

\* a statement of the root block calls a function declared without an
\* annotation, after the FunDecl placeholder of the function
CallAfterFunDecl ==
    /\ Running("FunCall")
    /\ Top.pc = 0
    /\ Len(stack) = 2
    /\ stack[1].k = "Block"
    /\ Declares(stack[1].e.funs, Top.e.id)
    /\ ~DupFuns(stack[1].e.funs)
    /\ DeclaredAs(stack[1].e.funs, Top.e.id).ret_type = "Any"
    /\ Len(Top.e.args) = Len(DeclaredAs(stack[1].e.funs, Top.e.id).params)
    /\ \E j \in 1..(stack[1].i - 1) :
          /\ stack[1].e.exps[j].k = "FunDecl"
          /\ stack[1].e.exps[j].id = Top.e.id

\* C8 as stated: once the FunDecl placeholder of a function without an
\* annotation has been checked, the return type is the inferred type and
\* stays it: a later call from a statement of the block does not fail with
\* 'need type annotations'.
C8_InferredTypePersists ==
    [][CallAfterFunDecl =>
          ~(ret'.k = "Err" /\ ret'.msg = "need type annotations")]_vars

AllBound(env) ==
    \A d \in DOMAIN env.vars :
        \A i \in DOMAIN env.vars[d] : env.vars[d][i].typ \in SettledTypes

\* C9: Any is never the result of a successful check and never the type
\* bound to a variable or a parameter, in an environment or in the
\* environment a closure captured; a FunCall that has passed its entry has a
\* callee whose return type is not Any.
C9_AnyNeverSurvives ==
    /\ ret.k = "Ok" => ret.t \in SettledTypes
    /\ \A ei \in DOMAIN envs :
          /\ AllBound(envs[ei])
          /\ \A d \in DOMAIN envs[ei].funs :
                \A i \in DOMAIN envs[ei].funs[d] :
                    /\ AllBound(envs[ei].funs[d][i].envir)
                    /\ \A p \in DOMAIN envs[ei].funs[d][i].fun.param_types :
                          envs[ei].funs[d][i].fun.param_types[p] \in SettledTypes
    /\ \A s \in DOMAIN stack :
          /\ stack[s].acc \in SettledTypes \cup {"-"}
          /\ (stack[s].k = "FunCall" /\ stack[s].pc > 0) =>
                stack[s].clo.fun.ret_type \in SettledTypes

\* the body of a function declared without an annotation has been checked
\* from its FunDecl placeholder and has returned its type
C9_Witness ==
    /\ phase = "run"
    /\ ret.k = "Ok"
    /\ ret.ev.k = "Function"
    /\ Top.k = "FunDecl"
    /\ parsed.st = "ok"
    /\ Declares(parsed.exp.funs, Top.e.id)
    /\ DeclaredAs(parsed.exp.funs, Top.e.id).ret_type = "Any"
    /\ Top.clo.fun.ret_type = ret.t

\* a FunCall is at its entry, its callee's return type is not Any, and the
\* number of arguments is not the number of parameters
WrongCount ==
    /\ Running("FunCall")
    /\ Top.pc = 0
    /\ FunFound(Env, Top.e.id)
    /\ lookup_fun(Env, Top.e.id).fun.ret_type # "Any"
    /\ Len(Top.e.args) # Len(lookup_fun(Env, Top.e.id).fun.param_types)

\* an argument of a FunCall has type-checked to a type that is not the type
\* of its parameter
WrongType ==
    /\ Running("FunCall")
    /\ Top.pc = 1
    /\ ret.k = "Ok"
    /\ ret.t # Top.clo.fun.param_types[Top.i]

\* an argument of a FunCall has failed to type-check
FailedArgument ==
    /\ phase = "run"
    /\ Top.k = "FunCall"
    /\ Top.pc = 1
    /\ ret.k = "Err"

\* C11: a FunCall to a function whose return type is not Any panics when the
\* argument count differs from the parameter count or when an argument
\* type-checks to a type other than its parameter's; the panic comes before
\* the body of the callee is checked (no call is made, nothing returns, and
\* no step follows a panic); an argument that itself fails to type-check
\* makes the call return that error.
C11_MismatchPanics ==
    [][/\ (WrongCount \/ WrongType) =>
              /\ phase' = "panic"
              /\ ret'.k = "Panic"
              /\ stack' = stack
              /\ envs' = envs
       /\ FailedArgument =>
              /\ phase' \in {"run", "done"}
              /\ ret'.k = "Err"
              /\ ret'.msg = ret.msg
              /\ ret'.loc = ret.loc
              /\ stack' = SubSeq(stack, 1, Len(stack) - 1)
       /\ phase # "panic"]_vars

\* the second argument of a call has the wrong type, the first has passed,
\* and the callee, whose body has not been checked, is not declared yet
C11_Witness ==
    /\ phase = "panic"
    /\ ret.k = "Panic"
    /\ ret.msg = "Incorrect argument type"
    /\ Top.k = "FunCall"
    /\ Top.pc = 1
    /\ Top.i = 2
    /\ ~Top.clo.declared
    /\ Top.clo.fun.ret_type # "Any"

\* C12 as stated: whenever the check of a BlockExp or Function::type_check
\* returns, with Ok or with Err, the frame it pushed has been popped: the
\* depth of its environment is the depth on entry.
C12_ScopesBracketed ==
    (ret.k \in {"Ok", "Err"} /\ ret.ev.k \in {"Block", "Function"}) =>
        ret.ev.d1 = ret.ev.d0

(***************************************************************************)
(* Claims about the termination of precedence()                            *)
(***************************************************************************)
Shorter(slice, ts) == 0 < Len(slice) /\ Len(slice) < Len(ts)

\* every call precedence(ts) makes, and every call those make, is on a
\* non-empty slice shorter than the terms of its caller, and terms[1] is
\* read only where it exists
RECURSIVE SlicesShrink(_)
SlicesShrink(ts) ==
    IF Len(ts) = 0 THEN FALSE
    ELSE IF ts[Len(ts)].k = "OpTerm" \/ Len(ts) = 1 THEN TRUE
    ELSE LET i == SplitIndex(ts)
             left == SubSeq(ts, 1, i - 1)
             right == SubSeq(ts, i + 1, Len(ts))
         IN
         IF i # 0
         THEN /\ Shorter(left, ts)
              /\ SlicesShrink(left)
              /\ precedence(left).st = "ok" =>
                    (Shorter(right, ts) /\ SlicesShrink(right))
         ELSE IF ts[1].k = "OpTerm"
         THEN ts[1].op \in UNARY_OPERATORS =>
                 (Shorter(Tail(ts), ts) /\ SlicesShrink(Tail(ts)))
         ELSE Len(ts) >= 2

\* C13: for the terms expression() hands over (non-empty, no two operands
\* adjacent) precedence returns an Exp or a syntax error, never the final
\* unreachable!(); every recursive call is on a non-empty, strictly shorter
\* slice and terms[1] is never out of bounds.
C13_PrecedenceTerminates ==
    Resolved =>
        /\ pres.st \in {"ok", "err"}
        /\ SlicesShrink(terms)

\* an operand followed by an operator of no binary tier: the binary loop has
\* found no split, the first term is an operand, and terms[1] is read
C13_Witness ==
    /\ Resolved
    /\ Len(terms) >= 3
    /\ terms[1].k = "ExpTerm"
    /\ SplitIndex(terms) = 0
    /\ pres.st = "err"
    /\ pres.msg = "Not a binary operator"

(***************************************************************************)
(* Claims about parse()                                                    *)
(***************************************************************************)
\* C14 as stated: whenever parse returns Ok the cursor stands at the
\* end-of-input sentinel, so a top-level stray terminator is a parse error
\* and the tokens after it are never dropped.
C14_OkAtEndOfInput ==
    parsed.st = "ok" => lexed[parsed.pos].t = "EndOfInput"

====
